---- MODULE Spec2Model ----
(***************************************************************************)
(* Model of FredHutch/interop-nf, bin/run_summary.py: the ColumnDef cell   *)
(* formatter (get_value_from_row, _format) and the RunSummary report       *)
(* (get_run_summary, get_read_summary, get_table_json, get_table_html).    *)
(* bin/column_def.py holds a second copy of ColumnDef with the same        *)
(* statements, and bin/interop_helper.py a second copy of both classes;    *)
(* one model serves them.  bin/plot_occupancy.py and                       *)
(* bin/plot_percent_base.py are modelled by the files they write.          *)
(*                                                                         *)
(* Three specifications:                                                   *)
(*   SpecColumn  one call of _format or get_value_from_row on inputs drawn *)
(*               by InitColumn;                                            *)
(*   Spec        one RunSummary object and any sequence of calls of its    *)
(*               four public methods;                                      *)
(*   SpecPlots   a working directory and any sequence of calls of          *)
(*               plot_occupancy and plot_percent_base.                     *)
(***************************************************************************)
EXTENDS Integers, Sequences, FiniteSets, TLC

VARIABLES
    op,                 \* SpecColumn: the pending call, "_format" or "get_value_from_row"
    column,             \* SpecColumn: the ColumnDef the call is made on (self)
    row,                \* SpecColumn: the row argument of get_value_from_row
    value,              \* SpecColumn: the value argument of _format
    pc,                 \* SpecColumn: "call" before the call, "done" after it
    ret,                \* SpecColumn: the outcome of the call
    summary,            \* Spec: self.summary, the external run summary (read-only)
    run_summary_df,     \* Spec: self.run_summary_df
    read_summary_dfs,   \* Spec: self.read_summary_dfs
    last,               \* Spec: the last method call and its outcome
    fetched,            \* Spec: the tables whose rows the last call asked the
                        \*       summary for, in order
    files,              \* SpecPlots: the names of the files in the working directory
    plot                \* SpecPlots: the last plot call and its outcome

columnVars == <<op, column, row, value, pc, ret>>
reportVars == <<summary, run_summary_df, read_summary_dfs, last, fetched>>
plotVars == <<files, plot>>
vars ==
    <<op, column, row, value, pc, ret,
      summary, run_summary_df, read_summary_dfs, last, fetched, files, plot>>

(***************************************************************************)
(* Bounds of the model.                                                    *)
(***************************************************************************)
\* precisions 0..MaxPrecision (and None) are drawn for a ColumnDef
MaxPrecision == 3
\* finite float inputs are k/16 for k in 0..MaxSixteenths, either sign
MaxSixteenths == 40
\* a composite ColumnDef names 2..MaxFields fields
MaxFields == 2
\* a run has 0..MaxReads reads
MaxReads == 2
\* a run has 0..MaxLanes lanes
MaxLanes == 2
\* the imaging table of a run has 0..MaxRows rows
MaxRows == 2

(***************************************************************************)
(* Python values.  Every value is a record of one shape so that any two    *)
(* can be compared: t is the Python type, a number is (-1)^neg * n / d     *)
(* (sign and magnitude, so that the float -0.0 is a value), s is the text  *)
(* of a str.  A finite float is held exactly: the inputs drawn below are   *)
(* dyadic rationals, which binary64 represents exactly, and the quotient   *)
(* by scale is drawn only where it is dyadic again (Representable).        *)
(***************************************************************************)
PyVal(t, neg, n, d, s) == [t |-> t, neg |-> neg, n |-> n, d |-> d, s |-> s]

PyNone == PyVal("None", FALSE, 0, 1, "")

PyNaN == PyVal("nan", FALSE, 0, 1, "")

PyInf(neg) == PyVal("inf", neg, 0, 1, "")

PyStr(s) == PyVal("str", FALSE, 0, 1, s)

\* a value that is no number and has neither a mean nor an error_cycle_range
PyObject == PyVal("object", FALSE, 0, 1, "")

PyInt(neg, n) == PyVal("int", neg /\ n # 0, n, 1, "")

RECURSIVE GCD(_, _)
GCD(a, b) == IF b = 0 THEN a ELSE GCD(b, a % b)

PyFloat(neg, n, d) == PyVal("float", neg, n \div GCD(n, d), d \div GCD(n, d), "")

IsNumber(v) == v.t \in {"int", "float", "nan", "inf"}

IsFinite(v) == v.t \in {"int", "float"}

RECURSIVE Pow10(_)
Pow10(p) == IF p = 0 THEN 1 ELSE 10 * Pow10(p - 1)

(***************************************************************************)
(* Outcome of a call: a returned value or a raised exception.              *)
(***************************************************************************)
Return(v) == [kind |-> "return", val |-> v, exc |-> ""]

Raise(e) == [kind |-> "raise", val |-> PyNone, exc |-> e]

NoOutcome == [kind |-> "none", val |-> PyNone, exc |-> ""]

(***************************************************************************)
(* value / self.scale (run_summary.py:66): Python true division.  The      *)
(* quotient of two numbers is a float whatever their types; a zero divisor *)
(* raises ZeroDivisionError (also under nan and inf); a non-number raises  *)
(* TypeError.                                                              *)
(***************************************************************************)
TrueDiv(v, s) ==
    IF ~IsNumber(v) \/ ~IsNumber(s) THEN Raise("TypeError")
    ELSE IF IsFinite(s) /\ s.n = 0 THEN Raise("ZeroDivisionError")
    ELSE IF v.t = "nan" \/ s.t = "nan" THEN Return(PyNaN)
    ELSE IF v.t = "inf" /\ s.t = "inf" THEN Return(PyNaN)
    ELSE IF v.t = "inf" THEN Return(PyInf(v.neg # s.neg))
    ELSE IF s.t = "inf" THEN Return(PyFloat(v.neg # s.neg, 0, 1))
    ELSE Return(PyFloat(v.neg # s.neg, v.n * s.d, v.d * s.n))

\* math.isnan(value) (run_summary.py:68)
isnan(v) == v.t = "nan"

(***************************************************************************)
(* round(value, ndigits) on a float (run_summary.py:69).  The builtin      *)
(* rounds the exact value of the float correctly, a tie going to the even  *)
(* neighbour.  ndigits None gives an int (OverflowError on an infinity),   *)
(* an int ndigits gives a float.                                           *)
(***************************************************************************)
\* a bug RoundQuotient could have: a tie goes up (away from zero), not to even
RoundQuotient_half_up(n, d) ==
    LET q == n \div d
        r == n % d
    IN  IF 2 * r < d THEN q ELSE q + 1

\* the nearest integer to n/d for n >= 0 and d > 0, a tie going to the even one
RoundQuotient(n, d) ==
    LET q == n \div d
        r == n % d
    IN  IF 2 * r < d THEN q
        ELSE IF 2 * r > d THEN q + 1
        ELSE IF q % 2 = 0 THEN q ELSE q + 1

round(v, ndigits) ==
    IF ndigits.t = "None"
    THEN IF v.t = "inf" THEN Raise("OverflowError")
         ELSE IF v.t = "nan" THEN Raise("ValueError")
         ELSE Return(PyInt(v.neg, RoundQuotient(v.n, v.d)))
    ELSE IF ndigits.t # "int" THEN Raise("TypeError")
    ELSE IF v.t \in {"inf", "nan"} THEN Return(v)
    ELSE IF ndigits.neg
         THEN Return(PyFloat(v.neg,
                             RoundQuotient(v.n, v.d * Pow10(ndigits.n)) * Pow10(ndigits.n), 1))
         ELSE Return(PyFloat(v.neg,
                             RoundQuotient(v.n * Pow10(ndigits.n), v.d), Pow10(ndigits.n)))

(***************************************************************************)
(* ColumnDef._format (run_summary.py:65-70).  self is the ColumnDef.       *)
(***************************************************************************)
\* a bug _format could have: precision None taken as "do not round"
_format_None_unrounded(self, v) ==
    LET q == TrueDiv(v, self.scale)
    IN  IF q.kind = "raise" THEN q
        ELSE IF ~isnan(q.val) /\ self.precision # PyNone THEN round(q.val, self.precision)
        ELSE q

\* a bug _format could have: the isnan guard left out
_format_rounds_nan(self, v) ==
    LET q == TrueDiv(v, self.scale)
    IN  IF q.kind = "raise" THEN q ELSE round(q.val, self.precision)

_format(self, v) ==
    LET q == TrueDiv(v, self.scale)
    IN  IF q.kind = "raise" THEN q
        ELSE IF ~isnan(q.val) THEN round(q.val, self.precision)
        ELSE q

(***************************************************************************)
(* str(x), which is also what an f-string does with {x}.  A float prints   *)
(* as its shortest repr: the integer part, a point, and the decimals with  *)
(* at least one digit.                                                     *)
(***************************************************************************)
Digit(n) == <<"0", "1", "2", "3", "4", "5", "6", "7", "8", "9">>[n + 1]

RECURSIVE NatStr(_)
NatStr(n) == IF n < 10 THEN Digit(n) ELSE NatStr(n \div 10) \o Digit(n % 10)

\* the k decimals of a fraction frac / 10^k, leading zeros kept
RECURSIVE Decimals(_, _)
Decimals(frac, k) ==
    IF k = 0 THEN "" ELSE Decimals(frac \div 10, k - 1) \o Digit(frac % 10)

\* the number of decimals of n/d: the least k with d dividing 10^k
RECURSIVE Places(_, _)
Places(d, k) == IF Pow10(k) % d = 0 THEN k ELSE Places(d, k + 1)

FloatStr(v) ==
    LET k == Places(v.d, 0)
        m == v.n * (Pow10(k) \div v.d)
    IN  (IF v.neg THEN "-" ELSE "")
            \o NatStr(m \div Pow10(k)) \o "."
            \o (IF k = 0 THEN "0" ELSE Decimals(m % Pow10(k), k))

str(v) ==
    CASE v.t = "str" -> v.s
      [] v.t = "int" -> (IF v.neg THEN "-" ELSE "") \o NatStr(v.n)
      [] v.t = "float" -> FloatStr(v)
      [] v.t = "nan" -> "nan"
      [] v.t = "inf" -> (IF v.neg THEN "-inf" ELSE "inf")
      [] v.t = "None" -> "None"
      [] OTHER -> "<object>"

(***************************************************************************)
(* A row of the external summary: a record from attribute names to         *)
(* attributes.  A name outside DOMAIN row is an attribute the row does not *)
(* have.  An attribute is None or a zero-argument getter; shape says what  *)
(* the getter returns: a plain value a ("scalar"), a metric_stat with      *)
(* mean a and stddev b ("stat"), or a cycle state whose error_cycle_range  *)
(* has first_cycle a and last_cycle b ("cycle_state").                     *)
(***************************************************************************)
AttrNone == [shape |-> "None", a |-> PyNone, b |-> PyNone]

Scalar(v) == [shape |-> "scalar", a |-> v, b |-> PyNone]

Stat(mean, stddev) == [shape |-> "stat", a |-> mean, b |-> stddev]

CycleState(first_cycle, last_cycle) ==
    [shape |-> "cycle_state", a |-> first_cycle, b |-> last_cycle]

Range(seq) == {seq[i] : i \in DOMAIN seq}

\* hasattr(row, field): whether getattr(row, field) finds the attribute
hasattr(r, field) == field \in DOMAIN r

\* ' / '.join(values) (run_summary.py:43)
RECURSIVE join(_, _)
join(sep, values) ==
    IF values = <<>> THEN ""
    ELSE IF Len(values) = 1 THEN values[1]
    ELSE values[1] \o sep \o join(sep, Tail(values))

(***************************************************************************)
(* The loop of the multiple-fields case (run_summary.py:40-43), from field *)
(* i on, values holding the strings appended so far.  getattr without a    *)
(* default raises AttributeError on a missing attribute, calling None      *)
(* raises TypeError, and .mean() raises AttributeError on anything but a   *)
(* metric_stat.                                                            *)
(***************************************************************************)
\* a bug the loop could have: each string put in front of the list
RECURSIVE CompositeValues_prepend(_, _, _, _)
CompositeValues_prepend(self, r, i, values) ==
    IF i > Len(self.fields) THEN Return(PyStr(join(" / ", values)))
    ELSE IF ~hasattr(r, self.fields[i]) THEN Raise("AttributeError")
    ELSE IF r[self.fields[i]].shape = "None" THEN Raise("TypeError")
    ELSE IF r[self.fields[i]].shape # "stat" THEN Raise("AttributeError")
    ELSE LET f == _format(self, r[self.fields[i]].a)
         IN  IF f.kind = "raise" THEN f
             ELSE CompositeValues_prepend(self, r, i + 1, <<str(f.val)>> \o values)

\* a bug the loop could have: a field that is missing, None or not a
\* metric_stat left out of the joined string
RECURSIVE CompositeValues_skip_unusable(_, _, _, _)
CompositeValues_skip_unusable(self, r, i, values) ==
    IF i > Len(self.fields) THEN Return(PyStr(join(" / ", values)))
    ELSE IF ~hasattr(r, self.fields[i])
         THEN CompositeValues_skip_unusable(self, r, i + 1, values)
    ELSE IF r[self.fields[i]].shape # "stat"
         THEN CompositeValues_skip_unusable(self, r, i + 1, values)
    ELSE LET f == _format(self, r[self.fields[i]].a)
         IN  IF f.kind = "raise" THEN f
             ELSE CompositeValues_skip_unusable(self, r, i + 1, Append(values, str(f.val)))

RECURSIVE CompositeValues(_, _, _, _)
CompositeValues(self, r, i, values) ==
    IF i > Len(self.fields) THEN Return(PyStr(join(" / ", values)))
    ELSE IF ~hasattr(r, self.fields[i]) THEN Raise("AttributeError")
    ELSE IF r[self.fields[i]].shape = "None" THEN Raise("TypeError")
    ELSE IF r[self.fields[i]].shape # "stat" THEN Raise("AttributeError")
    ELSE LET f == _format(self, r[self.fields[i]].a)
         IN  IF f.kind = "raise" THEN f
             ELSE CompositeValues(self, r, i + 1, Append(values, str(f.val)))

\* f'{a} +/- {b}' and f'{a} - {b}' (run_summary.py:53, 61): the operands are
\* evaluated left to right, the first exception propagates
FString2(fa, sep, fb) ==
    IF fa.kind = "raise" THEN fa
    ELSE IF fb.kind = "raise" THEN fb
    ELSE Return(PyStr(str(fa.val) \o sep \o str(fb.val)))

\* a bug StatValue could have: the standard deviation dropped, as the
\* multiple-fields case drops it
StatValue_mean_only(self, v) ==
    LET f == _format(self, v.a)
    IN  IF f.kind = "raise" THEN f ELSE Return(PyStr(str(f.val)))

\* the value has a mean (run_summary.py:51-53)
StatValue(self, v) == FString2(_format(self, v.a), " +/- ", _format(self, v.b))

\* a bug CycleValue could have: no case for first = last
CycleValue_always_pair(self, v) ==
    FString2(_format(self, v.a), " - ", _format(self, v.b))

\* the value has an error_cycle_range (run_summary.py:54-61); where first = last
\* what _format returns is returned as it is
CycleValue(self, v) ==
    IF v.a = v.b THEN _format(self, v.a)
    ELSE FString2(_format(self, v.a), " - ", _format(self, v.b))

\* a bug ScalarValue could have: the formatted value returned as its str
ScalarValue_as_str(self, v) ==
    LET f == _format(self, v.a)
    IN  IF f.kind = "raise" THEN f ELSE Return(PyStr(str(f.val)))

\* any other value (run_summary.py:63): what _format returns is returned as it is
ScalarValue(self, v) == _format(self, v.a)

(***************************************************************************)
(* ColumnDef.get_value_from_row (run_summary.py:32-63).  SingleValue is    *)
(* the single-field part (45-63): self.fields[0] of an empty list raises   *)
(* IndexError and getattr without a default raises AttributeError on a     *)
(* missing attribute, so that "N/A" is returned only for an attribute that *)
(* is there and is None.                                                   *)
(***************************************************************************)
SingleValue(self, r) ==
    IF self.fields = <<>> THEN Raise("IndexError")
    ELSE IF ~hasattr(r, self.fields[1]) THEN Raise("AttributeError")
    ELSE LET v == r[self.fields[1]]
         IN  IF v.shape = "None" THEN Return(PyStr("N/A"))
             ELSE IF v.shape = "stat" THEN StatValue(self, v)
             ELSE IF v.shape = "cycle_state" THEN CycleValue(self, v)
             ELSE ScalarValue(self, v)

get_value_from_row(self, r) ==
    IF Len(self.fields) > 1 THEN CompositeValues(self, r, 1, <<>>)
    ELSE SingleValue(self, r)

\* ColumnDef.__init__ (run_summary.py:19-30)
ColumnDef(name, fields, precision, scale) ==
    [name |-> name, fields |-> fields, precision |-> precision, scale |-> scale]

(***************************************************************************)
(* The static column lists (run_summary.py:74-123).  precision defaults to *)
(* 2 and scale to 1 (run_summary.py:29-30).                                *)
(***************************************************************************)
Default(name, field) == ColumnDef(name, <<field>>, PyInt(FALSE, 2), PyInt(FALSE, 1))

Unrounded(name, field) == ColumnDef(name, <<field>>, PyNone, PyInt(FALSE, 1))

Pair(name, fields) == ColumnDef(name, fields, PyInt(FALSE, 3), PyInt(FALSE, 1))

RUN_SUMMARY_COLUMNS ==
    << Default("Yield Total (G)", "yield_g"),
       Default("Projected Yield (G)", "projected_yield_g"),
       Default("% Aligned", "percent_aligned"),
       Default("Error Rate", "error_rate"),
       Unrounded("Intensity C1", "first_cycle_intensity"),
       Default("% >= Q30", "percent_gt_q30"),
       Default("% Occupied", "percent_occupied") >>

READ_SUMMARY_COLUMNS ==
    << Unrounded("Lane", "lane"),
       Unrounded("Tiles", "tile_count"),
       ColumnDef("Density", <<"density">>, PyNone, PyFloat(FALSE, 1000, 1)),
       Default("Cluster PF", "percent_pf"),
       Pair("Legacy Phasing/Prephasing rate", <<"phasing", "prephasing">>),
       Pair("Phasing Slope/offset", <<"phasing_slope", "phasing_offset">>),
       Pair("Prephasing Slope/offset", <<"prephasing_slope", "prephasing_offset">>),
       ColumnDef("Reads", <<"reads">>, PyInt(FALSE, 2), PyFloat(FALSE, 1000000, 1)),
       ColumnDef("Reads PF", <<"reads_pf">>, PyInt(FALSE, 2), PyFloat(FALSE, 1000000, 1)),
       Default("% >= Q30", "percent_gt_q30"),
       Default("Yield", "yield_g"),
       Unrounded("Cycles Error", "cycle_state"),
       Default("Aligned", "percent_aligned"),
       Default("Error", "error_rate"),
       Default("Error (35)", "error_rate_35"),
       Default("Error (50)", "error_rate_50"),
       Default("Error (100)", "error_rate_100"),
       Unrounded("Intensity C1", "first_cycle_intensity"),
       Default("% Occupied", "percent_occupied") >>

(***************************************************************************)
(* pandas.  A DataFrame is its column names in order and, per column, the  *)
(* cells in row order.  pd.Series(list) (run_summary.py:204, 228) infers   *)
(* one dtype for the column: numbers of which at least one is a float make *)
(* a float64 column, in which an int becomes the float of the same value;  *)
(* ints alone stay ints and a column holding a str keeps every object.     *)
(***************************************************************************)
\* the one element of a singleton set.  The({e(x) : x \in {d}}) is e with x
\* standing for the value of d: the model's way to say "x = d" once and then
\* use x, as the code assigns a result to a local and reads the local.
The(S) == CHOOSE y \in S : TRUE

AsFloat(v) == IF v.t = "int" THEN PyFloat(v.neg, v.n, 1) ELSE v

Series(cells) ==
    IF /\ \A i \in DOMAIN cells : IsNumber(cells[i])
       /\ \E i \in DOMAIN cells : cells[i].t # "int"
    THEN [i \in DOMAIN cells |-> AsFloat(cells[i])]
    ELSE cells

DataFrame(columns, series) == [columns |-> columns, series |-> series]

NumRows(df) == IF df.series = <<>> THEN 0 ELSE Len(df.series[1])

\* df.to_dict('records') (run_summary.py:182, 184): one dict per row
to_dict_records(df) ==
    [i \in 1..NumRows(df) |->
        [c \in Range(df.columns) |->
            df.series[CHOOSE j \in DOMAIN df.columns : df.columns[j] = c][i]]]

\* [column.get_value_from_row(row) for row in rows] from row i on
\* (run_summary.py:204, 228): the first exception ends the comprehension
RECURSIVE ColumnCells(_, _, _, _)
ColumnCells(col, rows, i, cells) ==
    IF i > Len(rows) THEN Return(cells)
    ELSE The({ IF c.kind = "raise" THEN c
               ELSE ColumnCells(col, rows, i + 1, Append(cells, c.val)) :
               c \in {get_value_from_row(col, rows[i])} })

\* for column in columns: data[column.name] = pd.Series([...]), from column j
\* on (run_summary.py:202-205, 226-228)
\* a bug BuildData could have: a column whose cells cannot all be formatted
\* is filled with 'N/A' and the build goes on
RECURSIVE BuildData_fills_failed(_, _, _, _)
BuildData_fills_failed(columns, rows, j, series) ==
    IF j > Len(columns) THEN Return(series)
    ELSE The({ BuildData_fills_failed(columns, rows, j + 1,
                   Append(series,
                          IF cells.kind = "raise"
                          THEN [i \in DOMAIN rows |-> PyStr("N/A")]
                          ELSE Series(cells.val))) :
               cells \in {ColumnCells(columns[j], rows, 1, <<>>)} })

RECURSIVE BuildData(_, _, _, _)
BuildData(columns, rows, j, series) ==
    IF j > Len(columns) THEN Return(series)
    ELSE The({ IF cells.kind = "raise" THEN cells
               ELSE BuildData(columns, rows, j + 1, Append(series, Series(cells.val))) :
               cells \in {ColumnCells(columns[j], rows, 1, <<>>)} })

ColumnNames(columns) == [j \in DOMAIN columns |-> columns[j].name]

(***************************************************************************)
(* self.summary, the run summary of the external library.  reads[i] is     *)
(* summary.at(i - 1): its read number, its index flag, its summary() row   *)
(* and its lane rows at(0..lane_count - 1).                                *)
(***************************************************************************)
size(sum) == Len(sum.reads)

\* a bug _get_read_display_name could have: the flag put after the number
_get_read_display_name_flag_last(sum, index) ==
    "Read " \o NatStr(sum.reads[index + 1].number)
            \o (IF sum.reads[index + 1].is_index THEN " (I)" ELSE "")

\* RunSummary._get_read_display_name (run_summary.py:232-236), index from 0
_get_read_display_name(sum, index) ==
    "Read " \o (IF sum.reads[index + 1].is_index THEN "(I) " ELSE "")
            \o NatStr(sum.reads[index + 1].number)

\* a bug RunLabels could have: the two totals in the other order
RunLabels_total_first(sum) ==
    [i \in 1..size(sum) |-> _get_read_display_name(sum, i - 1)]
        \o <<"Total", "Non-Indexed Total">>

\* rows of get_run_summary (run_summary.py:198-200), as labels and as rows
RunLabels(sum) ==
    [i \in 1..size(sum) |-> _get_read_display_name(sum, i - 1)]
        \o <<"Non-Indexed Total", "Total">>

RunRows(sum) ==
    [i \in 1..size(sum) |-> sum.reads[i].summary] \o <<sum.nonindex, sum.total>>

(***************************************************************************)
(* The tables of a report, as the summary is asked for their rows: the     *)
(* rows of the run summary by lines 198-200, those of a read by line 224.  *)
(***************************************************************************)
RunTable == [table |-> "run", read_num |-> 0]

ReadTable(read_num) == [table |-> "read", read_num |-> read_num]

(***************************************************************************)
(* RunSummary.get_run_summary (run_summary.py:193-210) on the cached table *)
(* df: the outcome, the value of self.run_summary_df after the call, and   *)
(* the tables whose rows were asked for.                                   *)
(***************************************************************************)
\* a bug get_run_summary could have: no look at the cache
get_run_summary_rebuilds(sum, df) ==
    The({ IF data.kind = "raise" THEN [out |-> data, df |-> df, fetched |-> <<RunTable>>]
          ELSE The({ [out |-> Return(built), df |-> built, fetched |-> <<RunTable>>] :
                     built \in {DataFrame(
                         <<"Level">> \o ColumnNames(RUN_SUMMARY_COLUMNS),
                         <<[i \in 1..(size(sum) + 2) |-> PyStr(RunLabels(sum)[i])]>>
                             \o data.val)} }) :
          data \in {BuildData(RUN_SUMMARY_COLUMNS, RunRows(sum), 1, <<>>)} })

get_run_summary(sum, df) ==
    IF df # PyNone THEN [out |-> Return(df), df |-> df, fetched |-> <<>>]
    ELSE The({ IF data.kind = "raise"
               THEN [out |-> data, df |-> df, fetched |-> <<RunTable>>]
               ELSE The({ [out |-> Return(built), df |-> built,
                           fetched |-> <<RunTable>>] :
                          built \in {DataFrame(
                              <<"Level">> \o ColumnNames(RUN_SUMMARY_COLUMNS),
                              <<[i \in 1..(size(sum) + 2) |-> PyStr(RunLabels(sum)[i])]>>
                                  \o data.val)} }) :
               data \in {BuildData(RUN_SUMMARY_COLUMNS, RunRows(sum), 1, <<>>)} })

(***************************************************************************)
(* RunSummary.get_read_summary (run_summary.py:212-230) on the cache dfs:  *)
(* the outcome and the value of self.read_summary_dfs after the call.      *)
(* The guard of line 222 lets read_num = size() through; summary.at then   *)
(* raises the library's index_out_of_bounds_exception, but only if the     *)
(* comprehension of line 224 runs it, which takes a lane.                  *)
(***************************************************************************)
get_read_summary(sum, dfs, read_num) ==
    IF read_num \in DOMAIN dfs
    THEN [out |-> Return(dfs[read_num]), dfs |-> dfs, fetched |-> <<>>]
    ELSE IF read_num < 0
         THEN [out |-> Raise("RuntimeError"), dfs |-> dfs, fetched |-> <<>>]
    ELSE IF read_num > size(sum)
         THEN [out |-> Raise("RuntimeError"), dfs |-> dfs, fetched |-> <<>>]
    ELSE IF sum.lane_count > 0 /\ read_num >= size(sum)
         THEN [out |-> Raise("index_out_of_bounds_exception"), dfs |-> dfs,
               fetched |-> <<ReadTable(read_num)>>]
    ELSE The({ IF data.kind = "raise"
               THEN [out |-> data, dfs |-> dfs, fetched |-> <<ReadTable(read_num)>>]
               ELSE The({ [out |-> Return(built),
                           dfs |-> [n \in DOMAIN dfs \cup {read_num} |->
                                       IF n = read_num THEN built ELSE dfs[n]],
                           fetched |-> <<ReadTable(read_num)>>] :
                          built \in {DataFrame(ColumnNames(READ_SUMMARY_COLUMNS),
                                               data.val)} }) :
               data \in {BuildData(READ_SUMMARY_COLUMNS,
                                   IF sum.lane_count = 0 THEN <<>>
                                   ELSE sum.reads[read_num + 1].lanes,
                                   1, <<>>)} })

\* [self.get_read_summary(read_num) for read_num in range(0, size())] from
\* read_num on (run_summary.py:164-171, 183-186): the tables so far, the cache,
\* the exception that ended it, if any, and the tables whose rows were asked for
RECURSIVE ReadSummaries(_, _, _, _)
ReadSummaries(sum, dfs, read_num, tables) ==
    IF read_num >= size(sum) THEN [out |-> Return(tables), dfs |-> dfs, fetched |-> <<>>]
    ELSE The({ IF r.out.kind = "raise" THEN r
               ELSE The({ [out |-> rest.out, dfs |-> rest.dfs,
                           fetched |-> r.fetched \o rest.fetched] :
                          rest \in {ReadSummaries(sum, r.dfs, read_num + 1,
                                                  Append(tables, r.out.val))} }) :
               r \in {get_read_summary(sum, dfs, read_num)} })

(***************************************************************************)
(* RunSummary.get_table_json (run_summary.py:179-191): the run summary is  *)
(* built first, then the reads.  The returned text is held as the document *)
(* it spells: json.dumps writes a float nan as NaN, and the replace of     *)
(* line 190 turns that into null; a str is written between quotes.         *)
(***************************************************************************)
JsonNull == PyVal("null", FALSE, 0, 1, "")

\* a bug JsonCell could have: no replace, a float nan left as NaN
JsonCell_keeps_nan(v) == v

\* one cell as json.dumps and the replace of line 190 write it.  A str cell is
\* written as it is: str(nan) is 'nan', which 'NaN' does not match
JsonCell(v) == IF v.t = "nan" THEN JsonNull ELSE v

JsonRecords(df) ==
    The({ [i \in DOMAIN recs |-> [c \in DOMAIN recs[i] |-> JsonCell(recs[i][c])]] :
          recs \in {to_dict_records(df)} })

get_table_json(sum, df, dfs) ==
    The({ IF run.out.kind = "raise"
          THEN [out |-> run.out, df |-> run.df, dfs |-> dfs, fetched |-> run.fetched]
          ELSE The({ IF reads.out.kind = "raise"
                     THEN [out |-> reads.out, df |-> run.df, dfs |-> reads.dfs,
                           fetched |-> run.fetched \o reads.fetched]
                     ELSE [out |-> Return([runSummary |-> JsonRecords(run.out.val),
                                           reads |-> [i \in DOMAIN reads.out.val |->
                                                         JsonRecords(reads.out.val[i])]]),
                           df |-> run.df, dfs |-> reads.dfs,
                           fetched |-> run.fetched \o reads.fetched] :
                     reads \in {ReadSummaries(sum, dfs, 0, <<>>)} }) :
          run \in {get_run_summary(sum, df)} })

(***************************************************************************)
(* RunSummary.get_table_html (run_summary.py:162-177): the read tables are *)
(* built first, then the run summary.  The returned fragment is held as    *)
(* the sequence of its elements; a DataFrame's to_html is one table.       *)
(***************************************************************************)
Element(tag, text, table) == [tag |-> tag, text |-> text, table |-> table]

NoTable == DataFrame(<<>>, <<>>)

\* a bug ReadElements could have: the heading counts reads from 0
ReadElements_from_zero(read_num, table) ==
    << Element("br", "", NoTable),
       Element("strong", "Read " \o NatStr(read_num), NoTable),
       Element("table", "", table) >>

\* one read's part of read_tables (run_summary.py:165-169)
ReadElements(read_num, table) ==
    << Element("br", "", NoTable),
       Element("strong", "Read " \o NatStr(read_num + 1), NoTable),
       Element("table", "", table) >>

RECURSIVE ReadTables(_, _)
ReadTables(tables, n) ==
    IF n = 0 THEN <<>> ELSE ReadTables(tables, n - 1) \o ReadElements(n - 1, tables[n])

get_table_html(sum, df, dfs) ==
    The({ IF reads.out.kind = "raise"
          THEN [out |-> reads.out, df |-> df, dfs |-> reads.dfs, fetched |-> reads.fetched]
          ELSE The({ IF run.out.kind = "raise"
                     THEN [out |-> run.out, df |-> run.df, dfs |-> reads.dfs,
                           fetched |-> reads.fetched \o run.fetched]
                     ELSE [out |-> Return(
                                << Element("style", "SAV_TABLE_STYLE", NoTable),
                                   Element("strong", "Run Quality Summary", NoTable),
                                   Element("table", "", run.out.val) >>
                                    \o ReadTables(reads.out.val, Len(reads.out.val))),
                           df |-> run.df, dfs |-> reads.dfs,
                           fetched |-> reads.fetched \o run.fetched] :
                     run \in {get_run_summary(sum, df)} }) :
          reads \in {ReadSummaries(sum, dfs, 0, <<>>)} })

(***************************************************************************)
(* Inputs of SpecColumn.                                                   *)
(***************************************************************************)
RECURSIVE IsPow2(_)
IsPow2(d) == d = 1 \/ (d % 2 = 0 /\ IsPow2(d \div 2))

\* v / s raises, is not finite, or is a float the model holds exactly
Representable(v, s) ==
    LET q == TrueDiv(v, s)
    IN  q.kind = "return" /\ q.val.t = "float" => IsPow2(q.val.d)

\* precision: None or 0..MaxPrecision (run_summary.py:29 defaults it to 2)
Precisions == {PyNone} \cup {PyInt(FALSE, p) : p \in 0..MaxPrecision}

\* scale: 1, 1E3 and 1E6 as the program sets it (run_summary.py:30, 97, 107),
\* and 0, 2 and -2
Scales ==
    {PyInt(FALSE, 0), PyInt(FALSE, 1), PyInt(FALSE, 2), PyInt(TRUE, 2),
     PyFloat(FALSE, 1000, 1), PyFloat(FALSE, 1000000, 1)}

\* magnitudes whose quotient by 1E3 or 1E6 is dyadic
Thousands == {125, 375, 1500, 2500, 125000}

Floats ==
    {PyFloat(neg, k, 16) : neg \in BOOLEAN, k \in 0..MaxSixteenths}
        \cup {PyFloat(FALSE, n, 1) : n \in Thousands}

Ints == {PyInt(FALSE, n) : n \in (0..5) \cup {35} \cup Thousands} \cup {PyInt(TRUE, 1)}

Numbers == Floats \cup Ints \cup {PyNaN, PyInf(FALSE), PyInf(TRUE)}

Values == Numbers \cup {PyObject}

\* means and standard deviations of the metric_stat values drawn
StatFloats ==
    {PyFloat(FALSE, k, 16) : k \in {0, 2, 6, 16, 40, 48, 64, 160}}
        \cup {PyFloat(TRUE, 8, 16), PyFloat(FALSE, 2500, 1), PyNaN}

\* first and last cycles of the cycle states drawn
Cycles == {PyInt(FALSE, n) : n \in {0, 5, 35, 2500}}

SingleAttrs ==
    {AttrNone} \cup {Scalar(v) : v \in Values}
        \cup {Stat(m, sd) : m \in StatFloats, sd \in StatFloats}
        \cup {CycleState(f, l) : f \in Cycles, l \in Cycles}

CompositeAttrs ==
    {AttrNone, Scalar(PyFloat(FALSE, 3, 1)), CycleState(PyInt(FALSE, 5), PyInt(FALSE, 35))}
        \cup {Stat(m, PyFloat(FALSE, 1, 1)) :
                m \in {PyFloat(FALSE, 3, 1), PyFloat(FALSE, 4, 1), PyFloat(FALSE, 1, 8),
                       PyFloat(FALSE, 2500, 1), PyNaN}}

ProbeFields == {"phasing", "prephasing"}

\* the rows that give some of the names in F an attribute of A and lack the others
RowsOver(F, A) == UNION {[D -> A] : D \in SUBSET F}

RowRepresentable(self, r) ==
    \A f \in DOMAIN r : Representable(r[f].a, self.scale) /\ Representable(r[f].b, self.scale)

EmptyRow == [f \in {} |-> AttrNone]

\* the RunSummary variables while a ColumnDef is exercised on its own
ReportIdle ==
    /\ summary = <<>>
    /\ run_summary_df = PyNone
    /\ read_summary_dfs = <<>>
    /\ last = <<>>
    /\ fetched = <<>>

\* the plot variables while no plot function is exercised
PlotIdle ==
    /\ files = {}
    /\ plot = <<>>

InitColumn ==
    /\ pc = "call"
    /\ ret = NoOutcome
    /\ ReportIdle
    /\ PlotIdle
    /\ \E precision \in Precisions, scale \in Scales :
        \/ /\ op = "_format"
           /\ column = ColumnDef("Cell", <<"phasing">>, precision, scale)
           /\ value \in {v \in Values : Representable(v, scale)}
           /\ row = EmptyRow
        \/ /\ op = "get_value_from_row"
           /\ value = PyNone
           /\ \E k \in 0..1 : \E fields \in [1..k -> ProbeFields] :
                /\ column = ColumnDef("Cell", fields, precision, scale)
                /\ row \in {r \in RowsOver(Range(fields), SingleAttrs) :
                              RowRepresentable(column, r)}
        \/ /\ op = "get_value_from_row"
           /\ value = PyNone
           /\ \E k \in 2..MaxFields : \E fields \in [1..k -> ProbeFields] :
                /\ column = ColumnDef("Cell", fields, precision, scale)
                /\ row \in {r \in RowsOver(Range(fields), CompositeAttrs) :
                              RowRepresentable(column, r)}

(***************************************************************************)
(* Actions of SpecColumn: the pending call is made.                        *)
(***************************************************************************)
Call_format ==
    /\ pc = "call"
    /\ op = "_format"
    /\ ret' = _format(column, value)
    /\ pc' = "done"
    /\ UNCHANGED <<op, column, row, value>>
    /\ UNCHANGED reportVars
    /\ UNCHANGED plotVars

Call_get_value_from_row ==
    /\ pc = "call"
    /\ op = "get_value_from_row"
    /\ ret' = get_value_from_row(column, row)
    /\ pc' = "done"
    /\ UNCHANGED <<op, column, row, value>>
    /\ UNCHANGED reportVars
    /\ UNCHANGED plotVars

NextColumn == Call_format \/ Call_get_value_from_row

SpecColumn == InitColumn /\ [][NextColumn]_vars

(***************************************************************************)
(* Inputs of Spec: the run summaries a run folder can give.  k tells the   *)
(* rows of one read from another's, l is the lane number.  The numbers are *)
(* sixteenths and multiples of 1E3 / 2 and 1E6 / 64, so that every         *)
(* quotient by a column's scale is exact.                                  *)
(***************************************************************************)
F16(n) == PyFloat(FALSE, n, 16)

OrNaN(nan, v) == IF nan THEN PyNaN ELSE v

\* the row of a read's summary(), of nonindex_summary() and of total_summary();
\* nan: the run has no aligned control; old: the row has no percent_occupied
RunRow(nan, old, k) ==
    LET base ==
            [yield_g |-> Scalar(F16(8 * k + 2)),
             projected_yield_g |-> Scalar(F16(8 * k + 3)),
             percent_aligned |-> Scalar(OrNaN(nan, F16(16 + k))),
             error_rate |-> Scalar(OrNaN(nan, F16(k))),
             first_cycle_intensity |-> Scalar(OrNaN(nan /\ k = 1, F16(1600 + 8 * k))),
             percent_gt_q30 |-> Scalar(F16(1500 + k))]
    IN  IF old THEN base
        ELSE base @@ [percent_occupied |-> Scalar(F16(1400 + k))]

\* the row of lane l of a read: at(read).at(l - 1)
LaneRow(nan, old, k, l) ==
    LET base ==
            [lane |-> Scalar(PyInt(FALSE, l)),
             tile_count |-> Scalar(PyInt(FALSE, 14)),
             density |-> Stat(PyFloat(FALSE, 1000 * (120 + l) + 500, 1),
                              PyFloat(FALSE, 2500, 1)),
             percent_pf |-> Stat(F16(1500 + k), F16(2 * l)),
             phasing |-> Stat(F16(k), F16(1)),
             prephasing |-> Stat(F16(k + l), F16(1)),
             phasing_slope |-> Stat(OrNaN(nan, F16(3)), F16(1)),
             phasing_offset |-> Stat(F16(l), F16(1)),
             prephasing_slope |-> Stat(F16(5), F16(1)),
             prephasing_offset |-> Stat(F16(16 * k), F16(1)),
             reads |-> Scalar(PyFloat(FALSE, 125000 * (l + 1), 1)),
             reads_pf |-> Scalar(PyFloat(FALSE, 15625 * (8 * l + 1), 1)),
             percent_gt_q30 |-> Scalar(F16(1500 + k)),
             yield_g |-> Scalar(F16(8 * k + 2)),
             cycle_state |-> CycleState(PyInt(FALSE, 5),
                                        PyInt(FALSE, IF l % 2 = 1 THEN 5 ELSE 35)),
             percent_aligned |-> Stat(OrNaN(nan, F16(16 + k)), OrNaN(nan, F16(1))),
             error_rate |-> Stat(OrNaN(nan, F16(k)), OrNaN(nan, F16(1))),
             error_rate_35 |-> Stat(OrNaN(nan, F16(k)), OrNaN(nan, F16(1))),
             error_rate_50 |-> Stat(OrNaN(nan, F16(k)), OrNaN(nan, F16(1))),
             error_rate_100 |-> Stat(OrNaN(nan, F16(k)), OrNaN(nan, F16(1))),
             first_cycle_intensity |-> Stat(F16(1600 + 8 * k), F16(24))]
    IN  IF old THEN base
        ELSE base @@ [percent_occupied |-> Stat(F16(1400 + k), F16(l))]

\* summary.at(k - 1): read number k
ReadSummary(nan, old, is_index, k, lanes) ==
    [number |-> k,
     is_index |-> is_index,
     summary |-> RunRow(nan, old, k),
     lanes |-> [l \in 1..lanes |-> LaneRow(nan, old, k, l)]]

\* R reads of which read number index, if any, is the index read; old_at says
\* whose rows lack percent_occupied: no row (0), those of read old_at, or the
\* two totals (R + 1)
Summaries ==
    { [reads |-> [k \in 1..R |-> ReadSummary(nan, old_at = k, index = k, k, lanes)],
       nonindex |-> RunRow(nan, old_at = R + 1, R + 1),
       total |-> RunRow(nan, old_at = R + 1, R + 2),
       lane_count |-> lanes] :
        R \in 0..MaxReads,
        lanes \in 0..MaxLanes,
        nan \in BOOLEAN,
        old_at \in 0..(MaxReads + 1),
        index \in 0..MaxReads }

\* the ColumnDef variables while a RunSummary is exercised
ColumnIdle ==
    /\ op = ""
    /\ column = PyNone
    /\ row = EmptyRow
    /\ value = PyNone
    /\ pc = ""
    /\ ret = NoOutcome

Call(name, arg, out) == [op |-> name, arg |-> arg, out |-> out]

\* RunSummary.__init__ (run_summary.py:145-160)
Init ==
    /\ ColumnIdle
    /\ PlotIdle
    /\ summary \in Summaries
    /\ run_summary_df = PyNone
    /\ read_summary_dfs = <<>>
    /\ last = Call("__init__", 0, NoOutcome)
    /\ fetched = <<>>

(***************************************************************************)
(* Actions of Spec: a caller calls one of the four public methods.         *)
(***************************************************************************)
Call_get_run_summary ==
    \E r \in {get_run_summary(summary, run_summary_df)} :
        /\ run_summary_df' = r.df
        /\ last' = Call("get_run_summary", 0, r.out)
        /\ fetched' = r.fetched
        /\ UNCHANGED <<summary, read_summary_dfs>>
        /\ UNCHANGED columnVars
        /\ UNCHANGED plotVars

Call_get_read_summary ==
    \E read_num \in (0 - 1)..(size(summary) + 1) :
        \E r \in {get_read_summary(summary, read_summary_dfs, read_num)} :
            /\ read_summary_dfs' = r.dfs
            /\ last' = Call("get_read_summary", read_num, r.out)
            /\ fetched' = r.fetched
            /\ UNCHANGED <<summary, run_summary_df>>
            /\ UNCHANGED columnVars
            /\ UNCHANGED plotVars

Call_get_table_json ==
    \E r \in {get_table_json(summary, run_summary_df, read_summary_dfs)} :
        /\ run_summary_df' = r.df
        /\ read_summary_dfs' = r.dfs
        /\ last' = Call("get_table_json", 0, r.out)
        /\ fetched' = r.fetched
        /\ UNCHANGED summary
        /\ UNCHANGED columnVars
        /\ UNCHANGED plotVars

Call_get_table_html ==
    \E r \in {get_table_html(summary, run_summary_df, read_summary_dfs)} :
        /\ run_summary_df' = r.df
        /\ read_summary_dfs' = r.dfs
        /\ last' = Call("get_table_html", 0, r.out)
        /\ fetched' = r.fetched
        /\ UNCHANGED summary
        /\ UNCHANGED columnVars
        /\ UNCHANGED plotVars

Next ==
    \/ Call_get_run_summary
    \/ Call_get_read_summary
    \/ Call_get_table_json
    \/ Call_get_table_html

Spec == Init /\ [][Next]_vars

(***************************************************************************)
(* plot_occupancy (plot_occupancy.py:13-81).  Of the run folder the model  *)
(* keeps what the function reads from the imaging table: its columns, each *)
(* a name and its subcolumns (none for a column without children), and the *)
(* number of its rows.  The figure is not modelled, the files written are. *)
(***************************************************************************)
\* an argument that is not given, so that the parameter takes its default
NotGiven == ""

ImagingColumn(name, subcolumns) == [name |-> name, subcolumns |-> subcolumns]

\* the loop of plot_occupancy.py:36-43, from column i on
RECURSIVE Headers(_, _, _)
Headers(columns, i, headers) ==
    IF i > Len(columns) THEN headers
    ELSE Headers(columns, i + 1,
                 IF columns[i].subcolumns # <<>>
                 THEN headers \o [k \in DOMAIN columns[i].subcolumns |->
                                     columns[i].name \o " (" \o columns[i].subcolumns[k] \o ")"]
                 ELSE Append(headers, columns[i].name))

\* hue.lower() (plot_occupancy.py:80) of the hues of line 64
lower(hue) ==
    CASE hue = "Tile" -> "tile"
      [] hue = "Lane" -> "lane"
      [] hue = "Cycle" -> "cycle"
      [] OTHER -> hue

\* the loop of plot_occupancy.py:67-81 from hue i on, on the files fs:
\* sns.scatterplot raises ValueError for an x, y or hue that is no column of
\* the data, savefig writes the file
RECURSIVE PlotHues(_, _, _, _, _)
PlotHues(headers, hues, i, prefix, fs) ==
    IF i > Len(hues) THEN [out |-> Return(PyNone), files |-> fs]
    ELSE IF {"% Occupied", "% Pass Filter", hues[i]} \subseteq Range(headers)
         THEN PlotHues(headers, hues, i + 1, prefix,
                       fs \cup {prefix \o "_" \o lower(hues[i]) \o ".jpg"})
    ELSE [out |-> Raise("ValueError"), files |-> fs]

\* a bug plot_occupancy could have: no skip when there is no data
plot_occupancy_no_skip(columns, rows, output_jpg_prefix, fs) ==
    PlotHues(Headers(columns, 1, <<>>), <<"Tile", "Lane", "Cycle">>, 1,
             IF output_jpg_prefix = NotGiven THEN "occupancy" ELSE output_jpg_prefix,
             fs)

\* plot_occupancy on a run folder whose imaging table has these columns and
\* this many rows, in a working directory holding the files fs: the outcome
\* and the files afterwards
plot_occupancy(columns, rows, output_jpg_prefix, fs) ==
    IF rows = 0 \/ "% Occupied" \notin Range(Headers(columns, 1, <<>>))
    THEN [out |-> Return(PyNone), files |-> fs]
    ELSE PlotHues(Headers(columns, 1, <<>>), <<"Tile", "Lane", "Cycle">>, 1,
                  IF output_jpg_prefix = NotGiven THEN "occupancy" ELSE output_jpg_prefix,
                  fs)

(***************************************************************************)
(* plot_percent_base (plot_percent_base.py:13-57): the lines and the read  *)
(* marks are drawn on the current figure, and savefig writes it to         *)
(* output_pdf, 'percent_base.pdf' when the argument is not given.          *)
(***************************************************************************)
plot_percent_base(output_pdf, fs) ==
    [out |-> Return(PyNone),
     files |-> fs \cup {IF output_pdf = NotGiven THEN "percent_base.pdf" ELSE output_pdf}]

(***************************************************************************)
(* Inputs and actions of SpecPlots.                                        *)
(***************************************************************************)
\* the columns an imaging table always has here, one of them with children
FixedColumns ==
    << ImagingColumn("Lane", <<>>), ImagingColumn("Tile", <<>>),
       ImagingColumn("P90", <<"RED", "GREEN">>) >>

\* the columns a run may have or lack; '% Occupied' is there on a NovaSeq only
OptionalColumns ==
    << ImagingColumn("Cycle", <<>>), ImagingColumn("% Pass Filter", <<>>),
       ImagingColumn("% Occupied", <<>>) >>

\* the columns of seq whose index is in keep, in order
RECURSIVE Keep(_, _, _)
Keep(seq, keep, i) ==
    IF i > Len(seq) THEN <<>>
    ELSE (IF i \in keep THEN <<seq[i]>> ELSE <<>>) \o Keep(seq, keep, i + 1)

ImagingTables ==
    {FixedColumns \o Keep(OptionalColumns, keep, 1) : keep \in SUBSET DOMAIN OptionalColumns}

Prefixes == {NotGiven, "run1"}

Outputs == {NotGiven, "percent_base.svg", "run1.png"}

PlotCall(name, columns, rows, output, out) ==
    [op |-> name, columns |-> columns, rows |-> rows, output |-> output, out |-> out]

InitPlots ==
    /\ ColumnIdle
    /\ ReportIdle
    /\ files \in SUBSET {"occupancy_tile.jpg", "percent_base.svg"}
    /\ plot = PlotCall("", <<>>, 0, NotGiven, NoOutcome)

Call_plot_occupancy ==
    \E columns \in ImagingTables, rows \in 0..MaxRows, prefix \in Prefixes :
        \E r \in {plot_occupancy(columns, rows, prefix, files)} :
            /\ files' = r.files
            /\ plot' = PlotCall("plot_occupancy", columns, rows, prefix, r.out)
            /\ UNCHANGED columnVars
            /\ UNCHANGED reportVars

Call_plot_percent_base ==
    \E output \in Outputs :
        \E r \in {plot_percent_base(output, files)} :
            /\ files' = r.files
            /\ plot' = PlotCall("plot_percent_base", <<>>, 0, output, r.out)
            /\ UNCHANGED columnVars
            /\ UNCHANGED reportVars

NextPlots == Call_plot_occupancy \/ Call_plot_percent_base

SpecPlots == InitPlots /\ [][NextPlots]_vars

(***************************************************************************)
(* Properties of ColumnDef, checked under SpecColumn.                      *)
(***************************************************************************)
Returned_format == pc = "done" /\ op = "_format"

Returned_get_value == pc = "done" /\ op = "get_value_from_row"

SingleField == Len(column.fields) = 1

\* the attribute a single-field column reads, where the row has it
HasField == SingleField /\ hasattr(row, column.fields[1])

Field == row[column.fields[1]]

PositiveScale == IsFinite(column.scale) /\ ~column.scale.neg /\ column.scale.n > 0

NonZeroScale == ~(IsFinite(column.scale) /\ column.scale.n = 0)

Signed(v) == IF v.neg THEN 0 - v.n ELSE v.n

Abs(i) == IF i < 0 THEN 0 - i ELSE i

\* the integer m, counted in units of 1/unit, is a nearest multiple of 1/unit
\* to the finite q, and the even one of the two where q lies halfway
NearestHalfEven(m, unit, q) ==
    LET diff == Abs(m * q.d - Signed(q) * unit)
    IN  /\ diff <= q.d - diff
        /\ diff = q.d - diff => m % 2 = 0

\* C1: on a single-field ColumnDef and a row that lacks the named attribute,
\* get_value_from_row returns exactly "N/A" and raises nothing.
C1_AbsentGivesNA ==
    (Returned_get_value /\ SingleField /\ ~hasattr(row, column.fields[1]))
        => ret = Return(PyStr("N/A"))

\* equality of two numbers as Python's == has it, nan taken as equal to nan
NumEq(x, y) ==
    IF IsFinite(x) /\ IsFinite(y) THEN Signed(x) * y.d = Signed(y) * x.d
    ELSE x.t = y.t /\ x.neg = y.neg

\* C2 as claimed: with precision None and scale > 0, _format returns exactly
\* value / scale for every number, no rounding applied.
C2_NoneLeavesQuotientUnrounded ==
    (Returned_format /\ column.precision = PyNone /\ IsNumber(value) /\ PositiveScale)
        => /\ ret.kind = "return"
           /\ NumEq(ret.val, TrueDiv(value, column.scale).val)

\* C2 as amended: with precision None and scale > 0, _format returns, for every
\* finite number, the int nearest to value / scale, a tie going to the even
\* int; a nan is returned as it is and an infinity raises OverflowError.
C2_NoneRoundsToInt ==
    (Returned_format /\ column.precision = PyNone /\ IsNumber(value) /\ PositiveScale)
        => CASE IsFinite(value) ->
                    /\ ret.kind = "return"
                    /\ ret.val.t = "int"
                    /\ NearestHalfEven(Signed(ret.val), 1, TrueDiv(value, column.scale).val)
             [] value.t = "nan" -> ret = Return(PyNaN)
             [] OTHER -> ret = Raise("OverflowError")

\* 5/2 at precision None and scale 1 has become the int 2
C2_Witness ==
    /\ Returned_format
    /\ column.precision = PyNone
    /\ column.scale = PyInt(FALSE, 1)
    /\ value = PyFloat(FALSE, 5, 2)
    /\ ret = Return(PyInt(FALSE, 2))

\* C3: for a finite number, scale > 0 and an int precision p >= 0, _format
\* returns the float that is value / scale rounded to p decimals, a tie going
\* to the even last digit.
C3_RoundsHalfEven ==
    (Returned_format /\ column.precision.t = "int" /\ ~column.precision.neg
        /\ IsFinite(value) /\ PositiveScale)
        => /\ ret.kind = "return"
           /\ ret.val.t = "float"
           /\ Pow10(column.precision.n) % ret.val.d = 0
           /\ NearestHalfEven(Signed(ret.val) * (Pow10(column.precision.n) \div ret.val.d),
                              Pow10(column.precision.n),
                              TrueDiv(value, column.scale).val)

\* the tie 125 / 1E3 = 0.125 at precision 2 has become 0.12
C3_Witness ==
    /\ Returned_format
    /\ column.precision = PyInt(FALSE, 2)
    /\ column.scale = PyFloat(FALSE, 1000, 1)
    /\ value = PyInt(FALSE, 125)
    /\ ret = Return(PyFloat(FALSE, 12, 100))

\* C4 as claimed: on nan, _format returns nan for every precision and every
\* scale, and never raises.
C4_NaNForEveryScale == (Returned_format /\ value = PyNaN) => ret = Return(PyNaN)

\* C4 as amended: on nan, _format returns nan for every precision (None too)
\* and every scale other than zero.
C4_NaNForNonZeroScale ==
    (Returned_format /\ value = PyNaN /\ NonZeroScale) => ret = Return(PyNaN)

\* nan has come back from a column of precision None
C4_Witness ==
    /\ Returned_format
    /\ value = PyNaN
    /\ column.precision = PyNone
    /\ column.scale = PyFloat(FALSE, 1000, 1)
    /\ ret = Return(PyNaN)

\* C5: on a single-field column whose getter returns a metric_stat, the result
\* is the string "<F(mean)> +/- <F(stddev)>", F being _format with the column's
\* precision and scale; mean 10.0, stddev 1.0, precision 2, scale 1 give
\* "10.0 +/- 1.0".
C5_MeanPlusMinusStddev ==
    (Returned_get_value /\ HasField /\ Field.shape = "stat")
        => LET fm == _format(column, Field.a)
               fs == _format(column, Field.b)
           IN  /\ (fm.kind = "return" /\ fs.kind = "return")
                      => ret = Return(PyStr(str(fm.val) \o " +/- " \o str(fs.val)))
               /\ (fm.kind = "raise" \/ fs.kind = "raise") => ret.kind = "raise"
               /\ (/\ Field = Stat(PyFloat(FALSE, 10, 1), PyFloat(FALSE, 1, 1))
                   /\ column.precision = PyInt(FALSE, 2)
                   /\ column.scale = PyInt(FALSE, 1))
                      => ret = Return(PyStr("10.0 +/- 1.0"))

C5_Witness ==
    /\ Returned_get_value
    /\ HasField
    /\ Field = Stat(PyFloat(FALSE, 10, 1), PyFloat(FALSE, 1, 1))
    /\ column.precision = PyInt(FALSE, 2)
    /\ column.scale = PyInt(FALSE, 1)
    /\ ret = Return(PyStr("10.0 +/- 1.0"))

\* both bounds of the cycle range format without an exception
BoundsFormat ==
    /\ _format(column, Field.a).kind = "return"
    /\ _format(column, Field.b).kind = "return"

AllStats ==
    \A i \in DOMAIN column.fields :
        /\ hasattr(row, column.fields[i])
        /\ row[column.fields[i]].shape = "stat"
        /\ _format(column, row[column.fields[i]].a).kind = "return"

\* the first i formatted means, joined
RECURSIVE MeansJoined(_)
MeansJoined(i) ==
    LET part == str(_format(column, row[column.fields[i]].a).val)
    IN  IF i = 1 THEN part ELSE MeansJoined(i - 1) \o " / " \o part

\* C7: on a column of more than one field, each a metric_stat, the result is
\* the formatted means, one per field in the order of fields, joined by " / ",
\* the standard deviations dropped; means 3.0 and 4.0 at precision 2 give
\* "3.0 / 4.0".
C7_CompositeJoinsMeans ==
    (Returned_get_value /\ Len(column.fields) > 1 /\ AllStats)
        => /\ ret = Return(PyStr(MeansJoined(Len(column.fields))))
           /\ (/\ column.fields = <<"phasing", "prephasing">>
               /\ row["phasing"].a = PyFloat(FALSE, 3, 1)
               /\ row["prephasing"].a = PyFloat(FALSE, 4, 1)
               /\ column.precision = PyInt(FALSE, 2)
               /\ column.scale = PyInt(FALSE, 1))
                  => ret = Return(PyStr("3.0 / 4.0"))

C7_Witness ==
    /\ Returned_get_value
    /\ column.fields = <<"phasing", "prephasing">>
    /\ AllStats
    /\ row["phasing"].a = PyFloat(FALSE, 3, 1)
    /\ row["prephasing"].a = PyFloat(FALSE, 4, 1)
    /\ column.precision = PyInt(FALSE, 2)
    /\ ret = Return(PyStr("3.0 / 4.0"))

NumberCase ==
    /\ HasField
    /\ \/ Field.shape = "scalar"
       \/ Field.shape = "cycle_state" /\ Field.a = Field.b

Returned(name) == last.op = name /\ last.out.kind = "return"

\* the cell of column name in row i of a DataFrame
Cell(df, name, i) ==
    df.series[CHOOSE j \in DOMAIN df.columns : df.columns[j] = name][i]

RunColumnNames ==
    << "Level", "Yield Total (G)", "Projected Yield (G)", "% Aligned", "Error Rate",
       "Intensity C1", "% >= Q30", "% Occupied" >>

\* the run-summary table has a row per read in read order and then the two
\* totals, and its columns are Level and then the declared ones
RunTableShape(df) ==
    /\ df.columns = RunColumnNames
    /\ \A j \in DOMAIN df.series : Len(df.series[j]) = size(summary) + 2
    /\ \A i \in 1..size(summary) :
        /\ Cell(df, "Level", i) = PyStr(_get_read_display_name(summary, i - 1))
        /\ Cell(df, "Yield Total (G)", i)
             = _format(RUN_SUMMARY_COLUMNS[1], summary.reads[i].summary.yield_g.a).val
    /\ Cell(df, "Level", size(summary) + 1) = PyStr("Non-Indexed Total")
    /\ Cell(df, "Level", size(summary) + 2) = PyStr("Total")

\* the document has a record per row of the run summary, an entry per read in
\* read order, and in the entry of a read a record per lane in lane order, whose
\* Lane is the lane number as an int
JsonShape(doc) ==
    /\ Len(doc.runSummary) = size(summary) + 2
    /\ \A i \in DOMAIN doc.runSummary : DOMAIN doc.runSummary[i] = Range(RunColumnNames)
    /\ Len(doc.reads) = size(summary)
    /\ \A r \in 1..size(summary) :
        /\ Len(doc.reads[r]) = summary.lane_count
        /\ \A l \in 1..summary.lane_count :
            /\ doc.reads[r][l]["Lane"] = summary.reads[r].lanes[l].lane.a
            /\ doc.reads[r][l]["Lane"].t = "int"
            /\ doc.reads[r][l]["Yield"]
                 = _format(READ_SUMMARY_COLUMNS[11], summary.reads[r].lanes[l].yield_g.a).val

\* C9: for R reads and L lanes, get_run_summary has R + 2 rows, read 0..R-1 and
\* then 'Non-Indexed Total' and 'Total', its columns in the declared order after
\* 'Level'; in what get_table_json returns, runSummary has R + 2 records and
\* reads has R entries, the entry of read r holding L records in lane order whose
\* 'Lane' is the lane number as a number.
C9_TableAndJsonShape ==
    /\ Returned("get_run_summary") => RunTableShape(last.out.val)
    /\ Returned("get_table_json") => JsonShape(last.out.val)

\* get_table_json has returned for a run of 2 reads and 1 lane, Lane being 1
C9_Witness ==
    /\ Returned("get_table_json")
    /\ size(summary) = 2
    /\ summary.lane_count = 1
    /\ Len(last.out.val.runSummary) = 4
    /\ \A r \in 1..2 : last.out.val.reads[r][1]["Lane"] = PyInt(FALSE, 1)

\* the number of tables among the first i elements of a fragment
RECURSIVE TablesUpTo(_, _)
TablesUpTo(html, i) ==
    IF i = 0 THEN 0
    ELSE TablesUpTo(html, i - 1) + (IF html[i].tag = "table" THEN 1 ELSE 0)

Heading(text) == Element("strong", text, NoTable)

\* C10: for R reads, what get_table_html returns holds the heading 'Run Quality
\* Summary' and exactly R + 1 tables: the run-summary table, and then one table
\* per read in read order 0..R-1, the table of read r under the heading
\* 'Read r+1'.
C10_HtmlTables ==
    Returned("get_table_html")
        => LET html == last.out.val
           IN  /\ TablesUpTo(html, Len(html)) = size(summary) + 1
               /\ \A i \in DOMAIN html :
                    html[i].tag = "table" =>
                        IF TablesUpTo(html, i) = 1
                        THEN /\ html[i].table = run_summary_df
                             /\ html[i].table.columns = RunColumnNames
                             /\ html[i - 1] = Heading("Run Quality Summary")
                        ELSE /\ html[i].table = read_summary_dfs[TablesUpTo(html, i) - 2]
                             /\ html[i].table.columns[1] = "Lane"
                             /\ html[i - 1] = Heading("Read " \o NatStr(TablesUpTo(html, i) - 1))

\* get_table_html has returned three tables for a run of 2 reads
C10_Witness ==
    /\ Returned("get_table_html")
    /\ size(summary) = 2
    /\ TablesUpTo(last.out.val, Len(last.out.val)) = 3
    /\ last.out.val[Len(last.out.val) - 1] = Heading("Read 2")

\* the cell get_value_from_row gives for a column and a row
FormattedCell(col, r) == get_value_from_row(col, r).val

\* a not-a-number value goes into the cell: the value, a mean or, where there
\* is one field, a standard deviation
HoldsNaN(col, r) ==
    \E k \in DOMAIN col.fields :
        \/ r[col.fields[k]].a.t = "nan"
        \/ Len(col.fields) = 1 /\ r[col.fields[k]].b.t = "nan"

\* e is what the document holds for the formatted cell f: null for a float nan,
\* the same str, the same number (as a float where the column became float64)
EmittedAsBuilt(e, f) ==
    IF f.t = "nan" THEN e = JsonNull
    ELSE e.t # "nan" /\ (e = f \/ (f.t = "int" /\ e = AsFloat(f)))

\* e is what the claim has the document hold for the cell of col and r
EmittedAsClaimed(e, col, r) ==
    IF HoldsNaN(col, r) THEN e = JsonNull
    ELSE e.t # "nan" /\ NumEq(e, FormattedCell(col, r))

\* C11 as claimed: in what get_table_json returns, every cell a not-a-number
\* value went into (a plain scalar, a 'mean +/- stddev' cell, a composite cell)
\* is null, and every other cell is the formatted cell.
C11_EveryNaNCellIsNull ==
    Returned("get_table_json") =>
        LET doc == last.out.val
        IN  /\ \A i \in DOMAIN doc.runSummary, j \in DOMAIN RUN_SUMMARY_COLUMNS :
                 EmittedAsClaimed(doc.runSummary[i][RUN_SUMMARY_COLUMNS[j].name],
                                  RUN_SUMMARY_COLUMNS[j], RunRows(summary)[i])
            /\ \A r \in DOMAIN doc.reads : \A l \in DOMAIN doc.reads[r] :
                 \A j \in DOMAIN READ_SUMMARY_COLUMNS :
                     EmittedAsClaimed(doc.reads[r][l][READ_SUMMARY_COLUMNS[j].name],
                                      READ_SUMMARY_COLUMNS[j], summary.reads[r].lanes[l])

\* C11 (amended): in what get_table_json returns, a cell whose formatted value
\* is itself not-a-number (a plain scalar) is null and no cell is NaN; a
\* 'mean +/- stddev' or composite cell is a str in which a not-a-number value
\* reads 'nan', and it is emitted as that str, not as null; every other cell
\* is emitted with its value, an int as the float of the same value where its
\* column also holds a float or a not-a-number.
C11_ScalarNaNIsNull ==
    Returned("get_table_json") =>
        LET doc == last.out.val
        IN  /\ \A i \in DOMAIN doc.runSummary, j \in DOMAIN RUN_SUMMARY_COLUMNS :
                 EmittedAsBuilt(doc.runSummary[i][RUN_SUMMARY_COLUMNS[j].name],
                                FormattedCell(RUN_SUMMARY_COLUMNS[j], RunRows(summary)[i]))
            /\ \A r \in DOMAIN doc.reads : \A l \in DOMAIN doc.reads[r] :
                 \A j \in DOMAIN READ_SUMMARY_COLUMNS :
                     EmittedAsBuilt(doc.reads[r][l][READ_SUMMARY_COLUMNS[j].name],
                                    FormattedCell(READ_SUMMARY_COLUMNS[j],
                                                  summary.reads[r].lanes[l]))

\* get_table_json has returned for a run without aligned control: the scalar
\* '% Aligned' of read 1 is null, the 'Aligned' cell of its lane 1 is the str
\* 'nan +/- nan' and the composite slope/offset cell is 'nan / 0.062'
C11_Witness ==
    /\ Returned("get_table_json")
    /\ size(summary) >= 1
    /\ summary.lane_count >= 1
    /\ summary.reads[1].summary.percent_aligned.a = PyNaN
    /\ last.out.val.runSummary[1]["% Aligned"] = JsonNull
    /\ last.out.val.reads[1][1]["Aligned"] = PyStr("nan +/- nan")
    /\ last.out.val.reads[1][1]["Phasing Slope/offset"] = PyStr("nan / 0.062")

\* C13 as claimed: in the run-summary table the read at index i with read
\* number n is labelled 'Read n (I)' when it is an index read and 'Read n' when
\* it is not, and the two aggregate rows 'Non-Indexed Total' and 'Total'.
C13_FlagAfterNumber ==
    Returned("get_run_summary") =>
        /\ \A i \in 1..size(summary) :
             Cell(last.out.val, "Level", i)
               = PyStr("Read " \o NatStr(summary.reads[i].number)
                               \o (IF summary.reads[i].is_index THEN " (I)" ELSE ""))
        /\ Cell(last.out.val, "Level", size(summary) + 1) = PyStr("Non-Indexed Total")
        /\ Cell(last.out.val, "Level", size(summary) + 2) = PyStr("Total")

\* C13 (amended): in the run-summary table the read at index i with read
\* number n is labelled 'Read (I) n' when it is an index read, the flag before
\* the number, and 'Read n' when it is not, and the two aggregate rows
\* 'Non-Indexed Total' and 'Total'.
C13_FlagBeforeNumber ==
    Returned("get_run_summary") =>
        /\ \A i \in 1..size(summary) :
             Cell(last.out.val, "Level", i)
               = PyStr("Read " \o (IF summary.reads[i].is_index THEN "(I) " ELSE "")
                               \o NatStr(summary.reads[i].number))
        /\ Cell(last.out.val, "Level", size(summary) + 1) = PyStr("Non-Indexed Total")
        /\ Cell(last.out.val, "Level", size(summary) + 2) = PyStr("Total")

\* get_run_summary has returned for a run of 2 reads of which read 2 is the
\* index read: the labels are 'Read 1', 'Read (I) 2' and the two totals
C13_Witness ==
    /\ Returned("get_run_summary")
    /\ size(summary) = 2
    /\ ~summary.reads[1].is_index
    /\ summary.reads[2].is_index
    /\ Cell(last.out.val, "Level", 1) = PyStr("Read 1")
    /\ Cell(last.out.val, "Level", 2) = PyStr("Read (I) 2")
    /\ Cell(last.out.val, "Level", 3) = PyStr("Non-Indexed Total")
    /\ Cell(last.out.val, "Level", 4) = PyStr("Total")

\* a field of the composite column is missing on the row, or is there and is
\* not a getter of a metric_stat (it is None, a plain value or a cycle state)
SomeFieldUnusable ==
    \E k \in DOMAIN column.fields :
        \/ ~hasattr(row, column.fields[k])
        \/ row[column.fields[k]].shape # "stat"

\* C14: a composite (multi-field) ColumnDef has no 'N/A' handling: if one of
\* its fields is absent on the row, or yields a value that is not a
\* distribution, get_value_from_row raises (AttributeError; TypeError for an
\* attribute that is None; or the error that formatting an earlier field
\* raised) and returns neither 'N/A' nor a partly joined string.
C14_CompositeRaises ==
    (Returned_get_value /\ Len(column.fields) > 1 /\ SomeFieldUnusable)
        => /\ ret.kind = "raise"
           /\ ret.exc \in {"AttributeError", "TypeError", "ZeroDivisionError", "OverflowError"}

\* get_value_from_row has been called on a two-field column whose first field
\* is a distribution and whose second is a plain value, and has raised
C14_Witness ==
    /\ Returned_get_value
    /\ column.fields = <<"phasing", "prephasing">>
    /\ column.scale = PyInt(FALSE, 1)
    /\ hasattr(row, "phasing") /\ row["phasing"].shape = "stat"
    /\ hasattr(row, "prephasing") /\ row["prephasing"].shape = "scalar"
    /\ ret = Raise("AttributeError")

\* the cache holds the table
Stored(table) ==
    IF table.table = "run" THEN run_summary_df # PyNone
    ELSE table.read_num \in DOMAIN read_summary_dfs

\* C12: on one RunSummary, over any sequence of calls of the four methods, a
\* table is built at most once: a call asks the summary for the rows of a table
\* only if the cache does not hold that table, and for no table twice; a table
\* the cache holds is never replaced or dropped; and a request for a table the
\* cache holds returns that table.
C12_BuiltOnce ==
    [][ /\ \A i \in DOMAIN fetched' : ~Stored(fetched'[i])
        /\ \A i, j \in DOMAIN fetched' : i # j => fetched'[i] # fetched'[j]
        /\ run_summary_df # PyNone => run_summary_df' = run_summary_df
        /\ \A n \in DOMAIN read_summary_dfs :
             /\ n \in DOMAIN read_summary_dfs'
             /\ read_summary_dfs'[n] = read_summary_dfs[n]
        /\ (last'.op = "get_run_summary" /\ run_summary_df # PyNone)
             => last'.out = Return(run_summary_df)
        /\ (last'.op = "get_read_summary" /\ last'.arg \in DOMAIN read_summary_dfs)
             => last'.out = Return(read_summary_dfs[last'.arg])
      ]_vars

\* get_run_summary has returned the stored table of a run of 2 reads without
\* asking the summary for a row, the tables of both reads being stored too
C12_Witness ==
    /\ Returned("get_run_summary")
    /\ size(summary) = 2
    /\ summary.lane_count >= 1
    /\ fetched = <<>>
    /\ last.out.val = run_summary_df
    /\ DOMAIN read_summary_dfs = {0, 1}

\* the outcomes of the cells of a table that cannot be formatted
CellFailures(columns, rows) ==
    { get_value_from_row(columns[j], rows[i]) : i \in DOMAIN rows, j \in DOMAIN columns }
        \ { c \in { get_value_from_row(columns[j], rows[i]) :
                      i \in DOMAIN rows, j \in DOMAIN columns } : c.kind = "return" }

\* the failures of the cells of a table of the report
TableFailures(table) ==
    IF table.table = "run" THEN CellFailures(RUN_SUMMARY_COLUMNS, RunRows(summary))
    ELSE IF table.read_num \in 0..(size(summary) - 1) /\ summary.lane_count > 0
         THEN CellFailures(READ_SUMMARY_COLUMNS, summary.reads[table.read_num + 1].lanes)
    ELSE {}

\* a cache of run table df and read tables dfs holds the table
StoredIn(table, df, dfs) ==
    IF table.table = "run" THEN df # PyNone ELSE table.read_num \in DOMAIN dfs

\* the tables a call of op with argument arg needs
Needed(name, arg) ==
    CASE name = "get_run_summary" -> {RunTable}
      [] name = "get_read_summary" -> {ReadTable(arg)}
      [] OTHER -> {RunTable} \cup {ReadTable(n) : n \in 0..(size(summary) - 1)}

\* C17 as claimed: when formatting a cell fails while a table is built, the
\* call of get_run_summary, get_read_summary, get_table_json or get_table_html
\* raises and the cache is exactly as before the call: run_summary_df as it
\* was, no new key in read_summary_dfs.
C17_FailureLeavesCache ==
    [][ (\E t \in Needed(last'.op, last'.arg) : ~Stored(t) /\ TableFailures(t) # {})
            => /\ last'.out.kind = "raise"
               /\ run_summary_df' = run_summary_df
               /\ read_summary_dfs' = read_summary_dfs
      ]_vars

\* C17 (amended): when formatting a cell fails while a table is built, the
\* error of the cell propagates to the caller of get_run_summary,
\* get_read_summary, get_table_json or get_table_html, nothing is returned and
\* the table that failed is not stored; the tables the same call built before
\* it are stored, whole, and the rest of the cache is as it was.  So a failed
\* get_run_summary or get_read_summary leaves the cache as before the call,
\* and a failed get_table_json or get_table_html may have added tables to it.
C17_FailedTableNotStored ==
    [][ (\E t \in Needed(last'.op, last'.arg) : ~Stored(t) /\ TableFailures(t) # {})
            => /\ last'.out.kind = "raise"
               /\ fetched' # <<>>
               /\ last'.out \in TableFailures(fetched'[Len(fetched')])
               /\ \A i \in DOMAIN fetched' :
                    StoredIn(fetched'[i], run_summary_df', read_summary_dfs')
                        <=> i < Len(fetched')
               /\ \A t \in Needed(last'.op, last'.arg) :
                    (StoredIn(t, run_summary_df', read_summary_dfs') /\ ~Stored(t))
                        => /\ TableFailures(t) = {}
                           /\ \E i \in DOMAIN fetched' : fetched'[i] = t
               /\ run_summary_df # PyNone => run_summary_df' = run_summary_df
               /\ \A n \in DOMAIN read_summary_dfs :
                    /\ n \in DOMAIN read_summary_dfs'
                    /\ read_summary_dfs'[n] = read_summary_dfs[n]
               /\ DOMAIN read_summary_dfs' \subseteq
                    DOMAIN read_summary_dfs \cup 0..(size(summary) - 1)
               /\ last'.op \in {"get_run_summary", "get_read_summary"}
                    => /\ run_summary_df' = run_summary_df
                       /\ read_summary_dfs' = read_summary_dfs
      ]_vars

\* get_table_html has raised the AttributeError of a cell of the run summary
\* of a run of 2 reads: the tables of both reads, built before it in the same
\* call, are stored and the run summary is not
C17_Witness ==
    /\ last.op = "get_table_html"
    /\ last.out = Raise("AttributeError")
    /\ size(summary) = 2
    /\ summary.lane_count >= 1
    /\ fetched = <<ReadTable(0), ReadTable(1), RunTable>>
    /\ DOMAIN read_summary_dfs = {0, 1}
    /\ run_summary_df = PyNone

\* C18 as claimed: for a run of R reads, get_read_summary(read_num) raises its
\* own RuntimeError for every read_num outside 0..R-1 before it asks the
\* summary for a row, returns a table only for 0 <= read_num < R, and the keys
\* of read_summary_dfs stay within 0..R-1.
C18_RejectsOutOfRange ==
    /\ (last.op = "get_read_summary" /\ last.arg \notin 0..(size(summary) - 1))
         => /\ last.out = Raise("RuntimeError")
            /\ fetched = <<>>
    /\ DOMAIN read_summary_dfs \subseteq 0..(size(summary) - 1)

(***************************************************************************)
(* Properties of the plot functions, checked under SpecPlots.              *)
(***************************************************************************)
\* the imaging table of the call has no rows or no '% Occupied' column
NoOccupancyData(call) ==
    call.rows = 0 \/ "% Occupied" \notin Range(Headers(call.columns, 1, <<>>))

\* C15: when the imaging table built by plot_occupancy has no rows or has no
\* '% Occupied' column, plot_occupancy returns without writing a file: the set
\* of files is the one before the call, so that none of occupancy_tile.jpg,
\* occupancy_cycle.jpg, occupancy_read.jpg is there unless it was before.
C15_SkipWritesNothing ==
    [][ (plot'.op = "plot_occupancy" /\ NoOccupancyData(plot'))
            => /\ plot'.out = Return(PyNone)
               /\ files' = files
      ]_vars

\* plot_occupancy has returned for a table of 2 rows without '% Occupied' (and
\* with every other column), and none of the three files is there
C15_Witness ==
    /\ plot.op = "plot_occupancy"
    /\ plot.rows = 2
    /\ "% Occupied" \notin Range(Headers(plot.columns, 1, <<>>))
    /\ {"Tile", "Lane", "Cycle", "% Pass Filter"} \subseteq Range(Headers(plot.columns, 1, <<>>))
    /\ plot.out = Return(PyNone)
    /\ files \cap {"occupancy_tile.jpg", "occupancy_cycle.jpg", "occupancy_read.jpg"} = {}

\* C16 as claimed: after plot_percent_base returns, called with the run folder
\* only, the file 'percent_base.svg' is in the working directory.
C16_DefaultWritesSvg ==
    (plot.op = "plot_percent_base" /\ plot.output = NotGiven /\ plot.out.kind = "return")
        => "percent_base.svg" \in files

====
